---- MODULE Spec2Model ----
(***************************************************************************)
(* Model of the blockchain synchroniser (Synchroniser.sync and the two     *)
(* watchers) of src/unnamed/part_000.                                      *)
(*                                                                         *)
(* One behaviour is one call of sync() on a freshly constructed            *)
(* Synchroniser with the non-interactive LoggerWatcher.  The main          *)
(* generator of sync() is one process (pc), the chain of chunk downloads   *)
(* is a second one (dl); they run on one event loop, so a promise          *)
(* continuation (a "tick") always runs before the next I/O completion or   *)
(* timer is delivered (Quiet).                                             *)
(*                                                                         *)
(* Spec is sync called with nopeers = true, on the longer chains;           *)
(* SpecPeers is sync with both phases, on shorter chains.                  *)
(*                                                                         *)
(* Blocks are identified by their number.  Numeric abstractions: the       *)
(* percentage Math.floor(x / R * 100) is computed in exact integer         *)
(* arithmetic (equal to the IEEE result for every R the bounds reach);     *)
(* speed is kept by its sign only, the one thing the code tests.           *)
(***************************************************************************)
EXTENDS Integers, Sequences, FiniteSets, TLC

\* ---------------------------------------------------------------- bounds
\* Inputs of the specification Spec: the block phase, with nopeers = true.
MaxLocal    == 1    \* local height L ranges over -1 .. MaxLocal
MaxRemote   == 3    \* rCurrent.number ranges over 0 .. MaxRemote
MaxTo       == 2    \* the argument `to` is undefined or in 0 .. MaxTo
MaxChunkLen == 2    \* the argument chunkLen is in 0 .. MaxChunkLen (0 is falsy)

\* Inputs of the specification SpecPeers: both phases, on shorter chains.
FewLocal    == 0
FewRemote   == 2
FewTo       == 0
FewChunkLen == 1
NumLeaves   == 2    \* peer Merkle leaves are the hashes 1 .. NumLeaves

Versions == {1, 2}              \* values of rCurrent.version

\* ------------------------------------------------------------- constants
CONST_BLOCKS_CHUNK == 500
MIN_UCP_VERSION    == 2
FINISHED_PCT       == 100

\* JavaScript numbers that are not integers: 0/0 and x/0 for x > 0.  Every
\* percentage is >= 0, so -1 is free to stand for NaN.
NaN      == -1
Infinity == 1000000

JsLt(a, b)  == a # NaN /\ b # NaN /\ a < b
JsNeq(a, b) == a = NaN \/ b = NaN \/ a # b

Min(a, b) == IF a < b THEN a ELSE b

\* `to` is <<>> when undefined and <<n>> when the caller passed the number n.
Undefined == <<>>

\* Math.floor(x / remoteNumber * 100)
Percent(x, remoteNumber) ==
  IF remoteNumber = 0
  THEN (IF x = 0 THEN NaN ELSE Infinity)
  ELSE (x * 100) \div remoteNumber

\* chunkLen = chunkLen || CONST_BLOCKS_CHUNK
EffectiveChunkLen(chunkLenArg) ==
  IF chunkLenArg = 0 THEN CONST_BLOCKS_CHUNK ELSE chunkLenArg

\* Math.min(rCurrent.number, to || rCurrent.number)
RemoteNumber(rNumber, toArg) ==
  Min(rNumber, IF toArg = Undefined \/ toArg[1] = 0 THEN rNumber ELSE toArg[1])

\* Mutant of Cautious: an explicit `false` is not honoured.
Cautious_IgnoresFalse(askedCautious, localNumber) ==
  askedCautious = "true" \/ localNumber >= 0

\* askedCautious === true || (askedCautious === undefined && localNumber >= 0)
Cautious(askedCautious, localNumber) ==
  \/ askedCautious = "true"
  \/ (askedCautious = "undefined" /\ localNumber >= 0)

\* Mutant of PlanFrom: the chunk's end is one too far (i + chunkLen).
RECURSIVE PlanFrom_Overlap(_, _, _)
PlanFrom_Overlap(i, remoteNumber, len) ==
  IF i <= remoteNumber
  THEN <<  <<i, Min(i + len, remoteNumber)>>  >> \o PlanFrom_Overlap(i + len, remoteNumber, len)
  ELSE <<>>

\* for (let i = localNumber + 1; i <= remoteNumber; i = i + chunkLen)
\*   chunks.push([i, Math.min(i + chunkLen - 1, remoteNumber)]);
RECURSIVE PlanFrom(_, _, _)
PlanFrom(i, remoteNumber, len) ==
  IF i <= remoteNumber
  THEN <<  <<i, Min(i + len - 1, remoteNumber)>>  >> \o PlanFrom(i + len, remoteNumber, len)
  ELSE <<>>

Chunks(localNumber, remoteNumber, len) == PlanFrom(localNumber + 1, remoteNumber, len)

\* _.sortBy(blocks, 'number'): insertion of each block into a sorted copy.
RECURSIVE InsertSorted(_, _)
InsertSorted(n, s) ==
  IF s = <<>> THEN <<n>>
  ELSE IF n < Head(s) THEN <<n>> \o s
  ELSE <<Head(s)>> \o InsertSorted(n, Tail(s))

\* Mutant of SortBy: the blocks are applied in the remote's order.
SortBy_Unsorted(blocks) == blocks

RECURSIVE SortBy(_)
SortBy(blocks) ==
  IF blocks = <<>> THEN <<>>
  ELSE InsertSorted(blocks[Len(blocks)], SortBy(SubSeq(blocks, 1, Len(blocks) - 1)))

\* The answers the remote may give to blocks(count, from): the blocks
\* from .. from+count-1, each once, in any order.
RECURSIVE Orders(_)
Orders(numbers) ==
  IF numbers = {} THEN { <<>> }
  ELSE UNION { { <<n>> \o rest : rest \in Orders(numbers \ {n}) } : n \in numbers }

BlockAnswers(count, from) == Orders(from..(from + count - 1))

\* The roots the two peers Merkle trees may have; the code only compares them.
Roots == {"rootA", "rootB"}

\* The leaves list the remote may answer for a set of leaves: each leaf
\* once, in ascending order.
RECURSIVE LeafList(_)
LeafList(leaves) ==
  IF leaves = {} THEN <<>>
  ELSE LET m == CHOOSE x \in leaves : \A y \in leaves : x <= y
       IN  <<m>> \o LeafList(leaves \ {m})

\* ------------------------------------------------------------------ state
VARIABLES
  pc,             \* position of the main generator of sync()
  lCurrent,       \* answer of dal.getCurrentBlockOrNull(): <<>> (null) or <<number>>
  to, chunkLen, askedCautious, nopeers,   \* arguments of sync()
  remoteVersion,  \* rCurrent.version of line 105; 0 before current() answers
  localNumber, remoteNumber, cautious,    \* computed at lines 109-113
  chunks,         \* the plan: sequence of <<first, last>>
  chunk2,         \* chunk[2] of each planned chunk: blocks in the remote's order
  toApply,        \* state of each original deferred, index 0 .. Len(chunks)
  swept,          \* the catch block has replaced every entry of toApply
  dl,             \* state of each chunk's download
  i, j, blocks,   \* applier loop: chunk index, block index, sorted blocks
  blocksApplied, speedPositive,           \* Synchroniser-wide counters
  logInterval,    \* "unset", "active" or "cleared"
  downPct, appliedPct, lastMsg,           \* LoggerWatcher fields
  endCalls,       \* number of watcher.end() calls
  statusAfterEnd, \* a timer-driven writeStatus ran after watcher.end()
  events,         \* objects pushed on the stream, in order
  ledger,         \* calls made to BlockchainService, in order
  blockRequests,  \* blocks(count, from) requests issued, in order
  peerRpcs,       \* peer RPCs issued to the remote, in order
  localMerkle,    \* answer of dal.merkleForPeers()
  rm,             \* root of the remote's tree: <<>> before line 206, then <<root>>
  jsonLeaves,   \* json.leaves of line 209
  leavesToAdd,    \* leavesToAdd of line 208
  li,             \* index of the leaf loop of line 215 (1-based)
  submitted,      \* calls of PeeringService.submitP, in order
  result          \* outcome of the promise returned by sync()

vars == << pc, lCurrent, to, chunkLen, askedCautious, nopeers, remoteVersion,
           localNumber, remoteNumber, cautious, chunks, chunk2, toApply, swept, dl, i, j, blocks,
           blocksApplied, speedPositive, logInterval, downPct, appliedPct,
           lastMsg, endCalls, statusAfterEnd, events, ledger, blockRequests,
           peerRpcs, localMerkle, rm, jsonLeaves, leavesToAdd, li, submitted,
           result >>

argVars    == << to, chunkLen, askedCautious, nopeers >>
planVars   == << remoteVersion, localNumber, remoteNumber, cautious, chunks >>
loopVars   == << i, j, blocks >>
peerVars   == << peerRpcs, localMerkle, rm, jsonLeaves, leavesToAdd, li, submitted >>

NoResult == [state |-> "pending", err |-> ""]

Init ==
  /\ pc = "idle"
  /\ lCurrent = <<>>
  /\ to = Undefined /\ chunkLen = 0 /\ askedCautious = "undefined" /\ nopeers = FALSE
  /\ remoteVersion = 0
  /\ localNumber = -1 /\ remoteNumber = 0 /\ cautious = FALSE
  /\ chunks = <<>> /\ chunk2 = <<>>
  /\ toApply = <<>> /\ swept = FALSE /\ dl = <<>>
  /\ i = 0 /\ j = 0 /\ blocks = <<>>
  /\ blocksApplied = 0 /\ speedPositive = FALSE
  /\ logInterval = "unset"
  /\ downPct = 0 /\ appliedPct = 0 /\ lastMsg = ""
  /\ endCalls = 0 /\ statusAfterEnd = FALSE
  /\ events = <<>> /\ ledger = <<>> /\ blockRequests = <<>>
  /\ peerRpcs = <<>> /\ localMerkle = [root |-> "", leaves |-> {}] /\ rm = <<>>
  /\ jsonLeaves = <<>>
  /\ leavesToAdd = <<>> /\ li = 0 /\ submitted = <<>>
  /\ result = NoResult

\* ------------------------------------------------------- event stream
DownloadEv(p) == [type |-> "download", pct |-> p, msg |-> ""]
AppliedEv(p)  == [type |-> "applied", pct |-> p, msg |-> ""]
SyncEv(ok, m) == [type |-> IF ok THEN "syncTrue" ELSE "syncFalse", pct |-> 0, msg |-> m]

\* A call of BlockchainService and how its promise settled.
LedgerCall(op, bs) == [op |-> op, blocks |-> bs, answer |-> "pending"]

\* The ledger's log once the last call has settled.
Answered(calls, answer) == [calls EXCEPT ![Len(calls)].answer = answer]

\* A request to the remote's peering API; leaf is 0 when the request names none.
PeerRpc(rpc, leaf) == [rpc |-> rpc, leaf |-> leaf]

\* A call PeeringService.submitP(entry, ?, eraseIfAlreadyRecorded); entry 0 is
\* the remote's own peering entry, entry h > 0 the value of leaf h.
SubmitP(entry, erase) == [entry |-> entry, erase |-> erase]

\* ------------------------------------------------------------ watcher
\* A progress state is [ba: blocksApplied, pct: the base watcher's field,
\* events: the stream]; the operators below thread it through the calls a
\* handler makes in sequence.

\* Mutant of WatcherSet: the wrapper pushes whenever the value changes.
WatcherSet_PushOnChange(st, ev, pct) ==
  [st EXCEPT !.events = IF JsNeq(st.pct, pct) THEN Append(@, ev) ELSE @,
             !.pct = pct]

\* watcher.downloadPercent(pct) / watcher.appliedPercent(pct) with pct given:
\* the wrapper pushes when the base watcher's value is lower, then
\* LoggerWatcher stores pct whatever it is.
WatcherSet(st, ev, pct) ==
  [st EXCEPT !.events = IF JsLt(st.pct, pct) THEN Append(@, ev) ELSE @,
             !.pct = pct]

DownloadPercent(st, pct) == WatcherSet(st, DownloadEv(pct), pct)
AppliedPercent(st, pct)  == WatcherSet(st, AppliedEv(pct), pct)

\* if (watcher.appliedPercent() != x) watcher.appliedPercent(x)
UpdateApplied(st, x) == IF JsNeq(st.pct, x) THEN AppliedPercent(st, x) ELSE st

\* incrementBlocks(increment)
incrementBlocks(st, increment) ==
  LET ba == st.ba + increment
  IN  UpdateApplied([st EXCEPT !.ba = ba], Percent(ba + localNumber, remoteNumber))

\* applyGivenBlock(cautious, remoteNumber)(block), up to the submitBlock call
applyGivenBlock(st, block) ==
  UpdateApplied([st EXCEPT !.ba = st.ba + 1], Percent(block, remoteNumber))

AppliedState  == [ba |-> blocksApplied, pct |-> appliedPct, events |-> events]
DownloadState == [ba |-> blocksApplied, pct |-> downPct, events |-> events]

\* ------------------------------------------------------- event loop
NumChunks == Len(chunks)

DownloadStartEnabled ==
  \E k \in 1..NumChunks : dl[k] = "idle" /\ toApply[k - 1] = "resolved"

ResumeEnabled ==
  \/ pc = "awaitChunk" /\ toApply[i] # "pending"
  \/ pc \in {"awaitLast", "awaitAll"}

\* No promise continuation is pending: the event loop takes the next
\* I/O completion or timer.
Quiet == ~DownloadStartEnabled /\ ~ResumeEnabled

\* ------------------------------------------------------- catch block
\* Mutant of FailCore: the catch block leaves the status timer running.
FailCore_KeepsTimer(err) ==
  /\ swept' = TRUE
  /\ events' = Append(events, SyncEv(FALSE, err))
  /\ logInterval' = logInterval
  /\ lastMsg' = err
  /\ endCalls' = endCalls + 1
  /\ result' = [state |-> "rejected", err |-> err]
  /\ pc' = "failed"

\* Mutant of FailCore: the catch block pushes no {sync: false} event.
FailCore_NoEvent(err) ==
  /\ swept' = TRUE
  /\ events' = events
  /\ logInterval' = IF logInterval = "active" THEN "cleared" ELSE logInterval
  /\ lastMsg' = err
  /\ endCalls' = endCalls + 1
  /\ result' = [state |-> "rejected", err |-> err]
  /\ pc' = "failed"

\* lines 237-248: the sweep of toApply, the terminal event, the timer, the
\* status line, watcher.end() and the rejection
FailCore(err) ==
  /\ swept' = TRUE
  /\ events' = Append(events, SyncEv(FALSE, err))
  /\ logInterval' = IF logInterval = "active" THEN "cleared" ELSE logInterval
  /\ lastMsg' = err
  /\ endCalls' = endCalls + 1
  /\ result' = [state |-> "rejected", err |-> err]
  /\ pc' = "failed"

\* What the catch block leaves alone, besides the plan and the ledger's log.
FailRest ==
  UNCHANGED << lCurrent, argVars, chunk2, toApply, dl, loopVars,
               blocksApplied, speedPositive, downPct, appliedPct,
               statusAfterEnd, blockRequests, peerVars >>

\* A rejection other than the ledger's reaches the catch block.
FailStep(err) ==
  /\ FailCore(err)
  /\ FailRest
  /\ UNCHANGED << planVars, ledger >>

\* A call of BlockchainService rejects and reaches the catch block.
FailLedger(err) ==
  /\ FailCore(err)
  /\ FailRest
  /\ ledger' = Answered(ledger, "rejected")
  /\ UNCHANGED planVars

\* Mutant of Succeed: the success tail does not call watcher.end().
Succeed_NoEnd ==
  /\ endCalls' = endCalls
  /\ events' = Append(events, SyncEv(TRUE, ""))
  /\ result' = [state |-> "fulfilled", err |-> ""]
  /\ pc' = "done"

\* lines 234-236
Succeed ==
  /\ endCalls' = endCalls + 1
  /\ events' = Append(events, SyncEv(TRUE, ""))
  /\ result' = [state |-> "fulfilled", err |-> ""]
  /\ pc' = "done"

\* ------------------------------------------------------------ inputs
\* The values the caller and the environment may supply.
Optional(numbers) == { <<>> } \cup { <<n>> : n \in numbers }

BlocksEnv == [ tos       |-> Optional(0..MaxTo),
               chunkLens |-> 0..MaxChunkLen,
               locals    |-> Optional(0..MaxLocal),
               remotes   |-> 0..MaxRemote,
               nopeers   |-> {TRUE},
               leaves    |-> {} ]

PeersEnv  == [ tos       |-> Optional(0..FewTo),
               chunkLens |-> 0..FewChunkLen,
               locals    |-> Optional(0..FewLocal),
               remotes   |-> 0..FewRemote,
               nopeers   |-> BOOLEAN,
               leaves    |-> 1..NumLeaves ]

\* ------------------------------------------------------------ actions
\* sync(to, chunkLen, askedCautious, nopeers) up to the getVucoin call
Sync(env) ==
  /\ pc = "idle"
  /\ \E t \in env.tos,
        c \in env.chunkLens,
        a \in {"true", "false", "undefined"},
        np \in env.nopeers :
       /\ to' = t
       /\ chunkLen' = EffectiveChunkLen(c)
       /\ askedCautious' = a
       /\ nopeers' = np
  /\ pc' = "connecting"
  /\ UNCHANGED << lCurrent, planVars, chunk2, toApply, swept, dl, loopVars,
                  blocksApplied, speedPositive, logInterval, downPct,
                  appliedPct, lastMsg, endCalls, statusAfterEnd, events,
                  ledger, blockRequests, peerVars, result >>

\* getVucoin resolves: line 97 calls dal.getCurrentBlockOrNull()
ConnectOk ==
  /\ pc = "connecting" /\ Quiet
  /\ pc' = "getCurrent"
  /\ UNCHANGED << lCurrent, argVars, planVars, chunk2, toApply, swept, dl,
                  loopVars, blocksApplied, speedPositive, logInterval, downPct,
                  appliedPct, lastMsg, endCalls, statusAfterEnd, events,
                  ledger, blockRequests, peerVars, result >>

ConnectFail ==
  /\ pc = "connecting" /\ Quiet
  /\ FailStep("Cannot sync")

\* dal.getCurrentBlockOrNull() resolves: lines 102-104
GetCurrentOk(env) ==
  /\ pc = "getCurrent" /\ Quiet
  /\ \E l \in env.locals : lCurrent' = l
  /\ lastMsg' = "Connecting"
  /\ pc' = "current"
  /\ UNCHANGED << argVars, planVars, chunk2, toApply, swept, dl, loopVars,
                  blocksApplied, speedPositive, logInterval, downPct,
                  appliedPct, endCalls, statusAfterEnd, events, ledger,
                  blockRequests, peerVars, result >>

GetCurrentFail ==
  /\ pc = "getCurrent" /\ Quiet
  /\ FailStep("DalError")

\* Mutant of TooOld: the limit is one too low.
TooOld_OffByOne(version) == version < MIN_UCP_VERSION - 1

\* remoteVersion < 2
TooOld(version) == version < MIN_UCP_VERSION

\* node.blockchain.current() answers {number, version}: lines 105-160
CurrentOk(env) ==
  /\ pc = "current" /\ Quiet
  /\ \E rNumber \in env.remotes, version \in Versions :
       IF TooOld(version)
       THEN /\ remoteVersion' = version
            /\ FailCore("UCP version is 1 (Must be >= 2)")
            /\ FailRest
            /\ UNCHANGED << localNumber, remoteNumber, cautious, chunks, ledger >>
       ELSE
         LET l   == IF lCurrent = <<>> THEN -1 ELSE lCurrent[1]
             r   == RemoteNumber(rNumber, to)
             plan == Chunks(l, r, chunkLen)
             n   == Len(plan)
         IN  /\ remoteVersion' = version
             /\ localNumber' = l
             /\ remoteNumber' = r
             /\ cautious' = Cautious(askedCautious, l)
             /\ logInterval' = "active"
             /\ chunks' = plan
             /\ chunk2' = [k \in 1..n |-> <<>>]
             /\ toApply' = [k \in 0..n |-> IF k = 0 THEN "resolved" ELSE "pending"]
             /\ dl' = [k \in 1..n |-> "idle"]
             /\ i' = 1
             /\ pc' = IF n > 0 THEN "awaitChunk" ELSE "awaitAll"
             /\ UNCHANGED << lCurrent, argVars, swept, j, blocks, blocksApplied,
                             speedPositive, downPct, appliedPct, lastMsg,
                             endCalls, statusAfterEnd, events, ledger,
                             blockRequests, peerVars, result >>

CurrentFail ==
  /\ pc = "current" /\ Quiet
  /\ FailStep("RpcError")

\* setInterval callback, lines 116-123
TimerTick ==
  /\ logInterval = "active" /\ Quiet
  /\ remoteNumber > 1 /\ speedPositive
  /\ lastMsg' = "Remaining"
  /\ statusAfterEnd' = (statusAfterEnd \/ endCalls > 0)
  /\ UNCHANGED << pc, lCurrent, argVars, planVars, chunk2, toApply, swept, dl,
                  loopVars, blocksApplied, speedPositive, logInterval, downPct,
                  appliedPct, endCalls, events, ledger, blockRequests,
                  peerVars, result >>

\* Mutant of DownloadStart: the request does not wait for the previous chunk.
DownloadStart_Eager(k) ==
  /\ dl[k] = "idle"
  /\ LET st == DownloadPercent(DownloadState, Percent(chunks[k][1], remoteNumber))
     IN  /\ downPct' = st.pct
         /\ events' = st.events
  /\ blockRequests' = Append(blockRequests, << chunks[k][2] - chunks[k][1] + 1, chunks[k][1] >>)
  /\ dl' = [dl EXCEPT ![k] = "inflight"]
  /\ UNCHANGED << pc, lCurrent, argVars, planVars, chunk2, toApply, swept,
                  loopVars, blocksApplied, speedPositive, logInterval,
                  appliedPct, lastMsg, endCalls, statusAfterEnd, ledger,
                  peerVars, result >>

\* toApply[index].promise.then(...): lines 139-143, up to the blocks request
DownloadStart(k) ==
  /\ dl[k] = "idle" /\ toApply[k - 1] = "resolved"
  /\ LET st == DownloadPercent(DownloadState, Percent(chunks[k][1], remoteNumber))
     IN  /\ downPct' = st.pct
         /\ events' = st.events
  /\ blockRequests' = Append(blockRequests, << chunks[k][2] - chunks[k][1] + 1, chunks[k][1] >>)
  /\ dl' = [dl EXCEPT ![k] = "inflight"]
  /\ UNCHANGED << pc, lCurrent, argVars, planVars, chunk2, toApply, swept,
                  loopVars, blocksApplied, speedPositive, logInterval,
                  appliedPct, lastMsg, endCalls, statusAfterEnd, ledger,
                  peerVars, result >>

\* Mutant of DownloadOk: the answer resolves the deferred even after the sweep.
DownloadOk_ResolvesAfterSweep(k) ==
  /\ dl[k] = "inflight" /\ Quiet
  /\ \E answer \in BlockAnswers(chunks[k][2] - chunks[k][1] + 1, chunks[k][1]) :
       chunk2' = [chunk2 EXCEPT ![k] = answer]
  /\ LET st == DownloadPercent(DownloadState, Percent(chunks[k][2], remoteNumber))
     IN  /\ downPct' = st.pct
         /\ events' = st.events
  /\ dl' = [dl EXCEPT ![k] = "done"]
  /\ toApply' = [toApply EXCEPT ![k] = "resolved"]
  /\ UNCHANGED << pc, lCurrent, argVars, planVars, swept, loopVars,
                  blocksApplied, speedPositive, logInterval, appliedPct,
                  lastMsg, endCalls, statusAfterEnd, ledger, blockRequests,
                  peerVars, result >>

\* node.blockchain.blocks answers: lines 144-149.  After the catch block has
\* swept toApply, toApply[index + 1] is a native promise without resolve():
\* the call throws and the original deferred stays pending.
DownloadOk(k) ==
  /\ dl[k] = "inflight" /\ Quiet
  /\ \E answer \in BlockAnswers(chunks[k][2] - chunks[k][1] + 1, chunks[k][1]) :
       chunk2' = [chunk2 EXCEPT ![k] = answer]
  /\ LET st == DownloadPercent(DownloadState, Percent(chunks[k][2], remoteNumber))
     IN  /\ downPct' = st.pct
         /\ events' = st.events
  /\ dl' = [dl EXCEPT ![k] = "done"]
  /\ toApply' = IF swept THEN toApply ELSE [toApply EXCEPT ![k] = "resolved"]
  /\ UNCHANGED << pc, lCurrent, argVars, planVars, swept, loopVars,
                  blocksApplied, speedPositive, logInterval, appliedPct,
                  lastMsg, endCalls, statusAfterEnd, ledger, blockRequests,
                  peerVars, result >>

\* Mutant of DownloadFail: the download error fails the sync at once instead
\* of being delivered to the applier through toApply[index + 1].
DownloadFail_FailsAtOnce(k) ==
  /\ dl[k] = "inflight" /\ Quiet
  /\ dl' = [dl EXCEPT ![k] = "failed"]
  /\ IF swept
     THEN UNCHANGED << pc, swept, events, logInterval, lastMsg, endCalls, result, toApply >>
     ELSE /\ FailCore("DownloadError")
          /\ toApply' = [toApply EXCEPT ![k] = "rejected"]
  /\ UNCHANGED << lCurrent, argVars, planVars, chunk2, loopVars,
                  blocksApplied, speedPositive, downPct, appliedPct,
                  statusAfterEnd, ledger, blockRequests, peerVars >>

\* node.blockchain.blocks fails: lines 150-153
DownloadFail(k) ==
  /\ dl[k] = "inflight" /\ Quiet
  /\ dl' = [dl EXCEPT ![k] = "failed"]
  /\ toApply' = IF swept THEN toApply ELSE [toApply EXCEPT ![k] = "rejected"]
  /\ UNCHANGED << pc, lCurrent, argVars, planVars, chunk2, swept, loopVars,
                  blocksApplied, speedPositive, logInterval, downPct,
                  appliedPct, lastMsg, endCalls, statusAfterEnd, events,
                  ledger, blockRequests, peerVars, result >>

\* The applier resumes from `yield toApplyNoCautious[i].promise`:
\* lines 160-169 up to the first ledger call, or the rejection thrown into
\* the generator.  The download continuation registered on the same promise
\* at line 139 runs first.
ApplierResume ==
  /\ pc = "awaitChunk" /\ ~DownloadStartEnabled
  /\ toApply[i] # "pending"
  /\ IF toApply[i] = "rejected"
     THEN FailStep("DownloadError")
     ELSE
       LET sorted == SortBy(chunk2[i])
       IN  /\ blocks' = sorted
           /\ IF cautious
              THEN LET st == applyGivenBlock(AppliedState, sorted[1])
                   IN  /\ blocksApplied' = st.ba
                       /\ appliedPct' = st.pct
                       /\ events' = st.events
                       /\ speedPositive' = TRUE
                       /\ ledger' = Append(ledger, LedgerCall("submitBlock", <<sorted[1]>>))
                       /\ j' = 1
                       /\ pc' = "submitting"
              ELSE /\ ledger' = Append(ledger, LedgerCall("saveBlocksInMainBranch", sorted))
                   /\ pc' = "saving"
                   /\ UNCHANGED << blocksApplied, appliedPct, events, speedPositive, j >>
           /\ UNCHANGED << lCurrent, argVars, planVars, chunk2, toApply, swept,
                           dl, i, logInterval, downPct, lastMsg, endCalls,
                           statusAfterEnd, blockRequests, peerVars, result >>

\* BlockchainService.submitBlock accepts: lines 166-167, then the next block
\* (line 165), the next chunk (line 160) or the end of the loop (line 191)
SubmitOk ==
  /\ pc = "submitting" /\ Quiet
  /\ LET st1 == incrementBlocks(AppliedState, 1)
     IN  IF j < Len(blocks)
         THEN LET st2 == applyGivenBlock(st1, blocks[j + 1])
              IN  /\ blocksApplied' = st2.ba
                  /\ appliedPct' = st2.pct
                  /\ events' = st2.events
                  /\ ledger' = Append(Answered(ledger, "accepted"),
                                       LedgerCall("submitBlock", <<blocks[j + 1]>>))
                  /\ j' = j + 1
                  /\ UNCHANGED << pc, i >>
         ELSE /\ blocksApplied' = st1.ba
              /\ appliedPct' = st1.pct
              /\ events' = st1.events
              /\ i' = i + 1
              /\ pc' = IF i < NumChunks THEN "awaitChunk" ELSE "awaitAll"
              /\ ledger' = Answered(ledger, "accepted")
              /\ UNCHANGED j
  /\ speedPositive' = TRUE
  /\ UNCHANGED << lCurrent, argVars, planVars, chunk2, toApply, swept, dl,
                  blocks, logInterval, downPct, lastMsg, endCalls,
                  statusAfterEnd, blockRequests, peerVars, result >>

\* Mutant of SubmitReject: the rejection is swallowed and the loop goes on.
SubmitReject_Swallowed ==
  /\ pc = "submitting" /\ Quiet
  /\ LET st1 == incrementBlocks(AppliedState, 1)
     IN  IF j < Len(blocks)
         THEN LET st2 == applyGivenBlock(st1, blocks[j + 1])
              IN  /\ blocksApplied' = st2.ba
                  /\ appliedPct' = st2.pct
                  /\ events' = st2.events
                  /\ ledger' = Append(Answered(ledger, "rejected"),
                                       LedgerCall("submitBlock", <<blocks[j + 1]>>))
                  /\ j' = j + 1
                  /\ UNCHANGED << pc, i >>
         ELSE /\ blocksApplied' = st1.ba
              /\ appliedPct' = st1.pct
              /\ events' = st1.events
              /\ i' = i + 1
              /\ pc' = IF i < NumChunks THEN "awaitChunk" ELSE "awaitAll"
              /\ ledger' = Answered(ledger, "rejected")
              /\ UNCHANGED j
  /\ speedPositive' = TRUE
  /\ UNCHANGED << lCurrent, argVars, planVars, chunk2, toApply, swept, dl,
                  blocks, logInterval, downPct, lastMsg, endCalls,
                  statusAfterEnd, blockRequests, peerVars, result >>

\* BlockchainService.submitBlock rejects: the catch block
SubmitReject ==
  /\ pc = "submitting" /\ Quiet
  /\ FailLedger("LedgerError")

\* Mutant of SaveOk: the post-pass of lines 183-188 is skipped.
SaveOk_NoPostPass ==
  /\ pc = "saving" /\ Quiet
  /\ LET st == incrementBlocks(AppliedState, Len(blocks))
     IN  /\ blocksApplied' = st.ba
         /\ appliedPct' = st.pct
         /\ events' = st.events
  /\ speedPositive' = TRUE
  /\ IF i < NumChunks
     THEN /\ blocks' = <<>>
          /\ chunk2' = [chunk2 EXCEPT ![i] = <<>>]
     ELSE UNCHANGED << blocks, chunk2 >>
  /\ i' = i + 1
  /\ pc' = IF i < NumChunks THEN "awaitChunk" ELSE "awaitAll"
  /\ ledger' = Answered(ledger, "accepted")
  /\ UNCHANGED << lCurrent, argVars, planVars, toApply, swept, dl, j,
                  logInterval, downPct, lastMsg, endCalls, statusAfterEnd,
                  blockRequests, peerVars, result >>

\* BlockchainService.saveBlocksInMainBranch resolves: lines 170-179, then the
\* next chunk (line 160) or the post-pass (line 184)
SaveOk ==
  /\ pc = "saving" /\ Quiet
  /\ LET st == incrementBlocks(AppliedState, Len(blocks))
     IN  /\ blocksApplied' = st.ba
         /\ appliedPct' = st.pct
         /\ events' = st.events
  /\ speedPositive' = TRUE
  /\ IF i < NumChunks
     THEN /\ blocks' = <<>>
          /\ chunk2' = [chunk2 EXCEPT ![i] = <<>>]
     ELSE UNCHANGED << blocks, chunk2 >>
  /\ i' = i + 1
  /\ pc' = IF i < NumChunks THEN "awaitChunk" ELSE "awaitLast"
  /\ ledger' = Answered(ledger, "accepted")
  /\ UNCHANGED << lCurrent, argVars, planVars, toApply, swept, dl, j,
                  logInterval, downPct, lastMsg, endCalls, statusAfterEnd,
                  blockRequests, peerVars, result >>

SaveReject ==
  /\ pc = "saving" /\ Quiet
  /\ FailLedger("LedgerError")

\* lines 183-187: the last chunk's promise is already resolved; lastBlock is
\* the last element of chunk[2] as the remote returned it
ResumeLast ==
  /\ pc = "awaitLast" /\ ~DownloadStartEnabled
  /\ LET lastBlocks == chunk2[NumChunks]
         lastBlock  == lastBlocks[Len(lastBlocks)]
     IN  ledger' = Append(ledger, LedgerCall("obsoleteInMainBranch", <<lastBlock>>))
  /\ pc' = "obsoleting"
  /\ UNCHANGED << lCurrent, argVars, planVars, chunk2, toApply, swept, dl,
                  loopVars, blocksApplied, speedPositive, logInterval, downPct,
                  appliedPct, lastMsg, endCalls, statusAfterEnd, events,
                  blockRequests, peerVars, result >>

ObsoleteOk ==
  /\ pc = "obsoleting" /\ Quiet
  /\ pc' = "awaitAll"
  /\ ledger' = Answered(ledger, "accepted")
  /\ UNCHANGED << lCurrent, argVars, planVars, chunk2, toApply, swept, dl,
                  loopVars, blocksApplied, speedPositive, logInterval, downPct,
                  appliedPct, lastMsg, endCalls, statusAfterEnd, events,
                  blockRequests, peerVars, result >>

ObsoleteReject ==
  /\ pc = "obsoleting" /\ Quiet
  /\ FailLedger("LedgerError")

\* lines 191-194: Q.all(toApply) is resolved, appliedPercent(100.0), then
\* dal.getBlock(0) is called
ResumeAll ==
  /\ pc = "awaitAll" /\ ~DownloadStartEnabled
  /\ LET st == AppliedPercent(AppliedState, FINISHED_PCT)
     IN  /\ appliedPct' = st.pct
         /\ events' = st.events
  /\ pc' = "getRoot"
  /\ UNCHANGED << lCurrent, argVars, planVars, chunk2, toApply, swept, dl,
                  loopVars, blocksApplied, speedPositive, logInterval, downPct,
                  lastMsg, endCalls, statusAfterEnd, ledger, blockRequests,
                  peerVars, result >>

\* dal.getBlock(0) resolves: line 195 calls saveParametersForRootBlock
GetRootOk ==
  /\ pc = "getRoot" /\ Quiet
  /\ ledger' = Append(ledger, LedgerCall("saveParametersForRootBlock", <<0>>))
  /\ pc' = "saveParams"
  /\ UNCHANGED << lCurrent, argVars, planVars, chunk2, toApply, swept, dl,
                  loopVars, blocksApplied, speedPositive, logInterval, downPct,
                  appliedPct, lastMsg, endCalls, statusAfterEnd, events,
                  blockRequests, peerVars, result >>

GetRootFail ==
  /\ pc = "getRoot" /\ Quiet
  /\ FailStep("DalError")

\* saveParametersForRootBlock resolves: lines 200-202 (peer phase, up to the
\* peering request of syncPeer) or lines 234-236
SaveParamsOk ==
  /\ pc = "saveParams" /\ Quiet
  /\ IF nopeers
     THEN /\ Succeed
          /\ UNCHANGED << lastMsg, peerRpcs >>
     ELSE /\ lastMsg' = "Peers..."
          /\ peerRpcs' = Append(peerRpcs, PeerRpc("peering", 0))
          /\ pc' = "peering"
          /\ UNCHANGED << endCalls, events, result >>
  /\ ledger' = Answered(ledger, "accepted")
  /\ UNCHANGED << lCurrent, argVars, planVars, chunk2, toApply, swept, dl,
                  loopVars, blocksApplied, speedPositive, logInterval, downPct,
                  appliedPct, statusAfterEnd, blockRequests,
                  localMerkle, rm, jsonLeaves, leavesToAdd, li, submitted >>

SaveParamsReject ==
  /\ pc = "saveParams" /\ Quiet
  /\ FailLedger("LedgerError")

\* ------------------------------------------------------------ peer phase
\* Mutant of MissingLeaves: the local leaves are not filtered out.
MissingLeaves_All(remoteLeaves, localLeaves) == remoteLeaves

\* _(json.leaves).forEach: keep the leaves the local tree lacks, in order
RECURSIVE MissingLeaves(_, _)
MissingLeaves(remoteLeaves, localLeaves) ==
  IF remoteLeaves = <<>> THEN <<>>
  ELSE IF Head(remoteLeaves) \in localLeaves
       THEN MissingLeaves(Tail(remoteLeaves), localLeaves)
       ELSE <<Head(remoteLeaves)>> \o MissingLeaves(Tail(remoteLeaves), localLeaves)

\* node.network.peering.get answers: lines 299-314 of syncPeer
PeeringOk ==
  /\ pc = "peering" /\ Quiet
  /\ \E signature \in {"missing", "wrong", "good"} :
       IF signature = "missing"
       THEN FailStep("Requires a peering entry + signature")
       ELSE /\ lastMsg' = IF signature = "wrong" THEN "Wrong signature for peer" ELSE lastMsg
            /\ submitted' = Append(submitted, SubmitP(0, "undefined"))
            /\ pc' = "submitOwn"
            /\ UNCHANGED << lCurrent, argVars, planVars, chunk2, toApply, swept,
                            dl, loopVars, blocksApplied, speedPositive,
                            logInterval, downPct, appliedPct, endCalls,
                            statusAfterEnd, events, ledger, blockRequests,
                            peerRpcs, localMerkle, rm, jsonLeaves, leavesToAdd,
                            li, result >>

PeeringFail ==
  /\ pc = "peering" /\ Quiet
  /\ FailStep("RpcError")

\* PeeringService.submitP(remoteJsonPeer) settles: lines 315-319, then
\* line 203 calls dal.merkleForPeers()
SubmitOwnDone ==
  /\ pc = "submitOwn" /\ Quiet
  /\ \E err \in {"", "ALREADY_RECORDED", "UNKNOWN_REFERENCE_BLOCK", "PeerError"} :
       IF err \notin {"", "ALREADY_RECORDED", "UNKNOWN_REFERENCE_BLOCK"}
       THEN FailStep(err)
       ELSE /\ pc' = "merkle"
            /\ UNCHANGED << lCurrent, argVars, planVars, chunk2, toApply, swept,
                            dl, loopVars, blocksApplied, speedPositive,
                            logInterval, downPct, appliedPct, lastMsg, endCalls,
                            statusAfterEnd, events, ledger, blockRequests,
                            peerVars, result >>

\* dal.merkleForPeers() resolves: lines 204-205 request the remote's root
MerkleOk(env) ==
  /\ pc = "merkle" /\ Quiet
  /\ \E root \in Roots, leaves \in SUBSET env.leaves :
       localMerkle' = [root |-> root, leaves |-> leaves]
  /\ peerRpcs' = Append(peerRpcs, PeerRpc("peers", 0))
  /\ pc' = "peersRoot"
  /\ UNCHANGED << lCurrent, argVars, planVars, chunk2, toApply, swept, dl,
                  loopVars, blocksApplied, speedPositive, logInterval, downPct,
                  appliedPct, lastMsg, endCalls, statusAfterEnd, events,
                  ledger, blockRequests, rm, jsonLeaves, leavesToAdd, li,
                  submitted, result >>

MerkleFail ==
  /\ pc = "merkle" /\ Quiet
  /\ FailStep("DalError")

\* getPeers({}) answers the remote's root: lines 206-209, or 230-236
PeersRootOk ==
  /\ pc = "peersRoot" /\ Quiet
  /\ \E root \in Roots :
       /\ rm' = << root >>
       /\ IF root # localMerkle.root
          THEN /\ peerRpcs' = Append(peerRpcs, PeerRpc("leaves", 0))
               /\ pc' = "peersLeaves"
               /\ UNCHANGED << lastMsg, endCalls, events, result >>
          ELSE /\ lastMsg' = "Peers already known"
               /\ Succeed
               /\ UNCHANGED peerRpcs
  /\ UNCHANGED << lCurrent, argVars, planVars, chunk2, toApply, swept, dl,
                  loopVars, blocksApplied, speedPositive, logInterval, downPct,
                  appliedPct, statusAfterEnd, ledger, blockRequests,
                  localMerkle, jsonLeaves, leavesToAdd, li, submitted >>

PeersRootFail ==
  /\ pc = "peersRoot" /\ Quiet
  /\ FailStep("RpcError")

\* getPeers({leaves: true}) answers: lines 210-217, or 234-236 when no leaf
\* is missing
PeersLeavesOk(env) ==
  /\ pc = "peersLeaves" /\ Quiet
  /\ \E remote \in SUBSET env.leaves :
     LET missing == MissingLeaves(LeafList(remote), localMerkle.leaves)
     IN  /\ jsonLeaves' = LeafList(remote)
         /\ leavesToAdd' = missing
         /\ IF missing # <<>>
            THEN /\ li' = 1
                 /\ peerRpcs' = Append(peerRpcs, PeerRpc("leaf", missing[1]))
                 /\ pc' = "leaf"
                 /\ UNCHANGED << endCalls, events, result >>
            ELSE /\ Succeed
                 /\ UNCHANGED << li, peerRpcs >>
  /\ UNCHANGED << lCurrent, argVars, planVars, chunk2, toApply, swept, dl,
                  loopVars, blocksApplied, speedPositive, logInterval, downPct,
                  appliedPct, lastMsg, statusAfterEnd, ledger, blockRequests,
                  localMerkle, rm, submitted >>

PeersLeavesFail ==
  /\ pc = "peersLeaves" /\ Quiet
  /\ FailStep("RpcError")

\* getPeers({leaf: h}) answers the leaf's value: lines 218-227
LeafOk ==
  /\ pc = "leaf" /\ Quiet
  /\ lastMsg' = "Peer"
  /\ submitted' = Append(submitted,
                         SubmitP(leavesToAdd[li], IF to = Undefined THEN "true" ELSE "false"))
  /\ pc' = "submitLeaf"
  /\ UNCHANGED << lCurrent, argVars, planVars, chunk2, toApply, swept, dl,
                  loopVars, blocksApplied, speedPositive, logInterval, downPct,
                  appliedPct, endCalls, statusAfterEnd, events, ledger,
                  blockRequests, peerRpcs, localMerkle, rm, jsonLeaves,
                  leavesToAdd, li, result >>

LeafFail ==
  /\ pc = "leaf" /\ Quiet
  /\ FailStep("RpcError")

\* PeeringService.submitP(entry, false, to === undefined) resolves: the next
\* leaf (line 217) or lines 234-236
SubmitLeafOk ==
  /\ pc = "submitLeaf" /\ Quiet
  /\ IF li < Len(leavesToAdd)
     THEN /\ li' = li + 1
          /\ peerRpcs' = Append(peerRpcs, PeerRpc("leaf", leavesToAdd[li + 1]))
          /\ pc' = "leaf"
          /\ UNCHANGED << endCalls, events, result >>
     ELSE /\ li' = li + 1
          /\ Succeed
          /\ UNCHANGED peerRpcs
  /\ UNCHANGED << lCurrent, argVars, planVars, chunk2, toApply, swept, dl,
                  loopVars, blocksApplied, speedPositive, logInterval, downPct,
                  appliedPct, lastMsg, statusAfterEnd, ledger, blockRequests,
                  localMerkle, rm, jsonLeaves, leavesToAdd, submitted >>

\* PeeringService.submitP rejects inside the leaf loop: nothing catches it
SubmitLeafReject ==
  /\ pc = "submitLeaf" /\ Quiet
  /\ \E err \in {"ALREADY_RECORDED", "UNKNOWN_REFERENCE_BLOCK", "PeerError"} :
       FailStep(err)

\* ------------------------------------------------------- specification
\* The steps of the blockchain phase, lines 93-195.
BlockStep(env) ==
  \/ Sync(env)
  \/ ConnectOk \/ ConnectFail
  \/ GetCurrentOk(env) \/ GetCurrentFail
  \/ CurrentOk(env) \/ CurrentFail
  \/ \E k \in 1..NumChunks : DownloadStart(k)
  \/ \E k \in 1..NumChunks : DownloadOk(k)
  \/ \E k \in 1..NumChunks : DownloadFail(k)
  \/ ApplierResume
  \/ SubmitOk \/ SubmitReject
  \/ SaveOk \/ SaveReject
  \/ ResumeLast
  \/ ObsoleteOk \/ ObsoleteReject
  \/ ResumeAll
  \/ GetRootOk \/ GetRootFail
  \/ SaveParamsOk \/ SaveParamsReject

\* The steps of the peer phase, lines 200-233; none is enabled when nopeers.
PeerStep(env) ==
  \/ PeeringOk \/ PeeringFail
  \/ SubmitOwnDone
  \/ MerkleOk(env) \/ MerkleFail
  \/ PeersRootOk \/ PeersRootFail
  \/ PeersLeavesOk(env) \/ PeersLeavesFail
  \/ LeafOk \/ LeafFail
  \/ SubmitLeafOk \/ SubmitLeafReject

\* sync(to, chunkLen, cautious, true): the blockchain phase on its own.
Next == BlockStep(BlocksEnv) \/ TimerTick

Spec == Init /\ [][Next]_vars

\* sync(to, chunkLen, cautious, nopeers): both phases.
NextPeers == BlockStep(PeersEnv) \/ PeerStep(PeersEnv) \/ TimerTick

SpecPeers == Init /\ [][NextPeers]_vars

\* ------------------------------------------------------------- claims
IsTerminal(e) == e.type \in {"syncTrue", "syncFalse"}
IsBlocksCall(c) == c.op \in {"submitBlock", "saveBlocksInMainBranch"}

Terminals == SelectSeq(events, IsTerminal)
Called(op) == \E c \in DOMAIN ledger : ledger[c].op = op

\* The block numbers handed to the ledger, call after call.
RECURSIVE Concat(_)
Concat(calls) ==
  IF calls = <<>> THEN <<>> ELSE Head(calls).blocks \o Concat(Tail(calls))

Handed == Concat(SelectSeq(ledger, IsBlocksCall))

Range(a, b) == [n \in 1..(b - a + 1) |-> a + n - 1]

NonDecreasing(type) ==
  \A a, b \in DOMAIN events :
    (a < b /\ events[a].type = type /\ events[b].type = type)
      => events[a].pct <= events[b].pct

IsLeafRpc(r) == r.rpc = "leaf"
IsLeafSubmit(c) == c.entry # 0
LeafRequests == SelectSeq(peerRpcs, IsLeafRpc)
LeafSubmits  == SelectSeq(submitted, IsLeafSubmit)

\* C1: a sync that ends with {sync: true} with remote target R above the
\* local height L has handed to the ledger exactly the blocks L+1, ..., R,
\* in ascending order, whatever the order of each remote answer.
C1_Coverage ==
  (result.state = "fulfilled" /\ remoteNumber > localNumber)
    => Handed = Range(localNumber + 1, remoteNumber)

C1_Witness ==
  /\ result.state = "fulfilled"
  /\ NumChunks >= 2
  /\ \E k \in 1..NumChunks : chunk2[k] # <<>> /\ chunk2[k] # SortBy(chunk2[k])
  /\ Handed = Range(localNumber + 1, remoteNumber)

\* C2: the pct values of the {download: pct} events are non-decreasing along
\* the stream, and so are those of the {applied: pct} events.
C2_MonotoneProgress == NonDecreasing("download") /\ NonDecreasing("applied")

\* The base watcher has been lowered below a value already pushed, and the
\* wrapper has pushed downloads and applied values before.
C2_Witness ==
  /\ pc = "submitting"
  /\ \E a, b \in DOMAIN events :
       /\ a < b /\ events[a].type = "applied" /\ events[b].type = "applied"
       /\ appliedPct < events[b].pct
  /\ \E a, b \in DOMAIN events :
       a < b /\ events[a].type = "download" /\ events[b].type = "download"

\* C3: for R >= 1, every pct of a {download: pct} or {applied: pct} event and
\* every value stored in the watcher is an integer in 0 .. 100.
C3_BoundedProgress ==
  remoteNumber >= 1 =>
    /\ \A e \in DOMAIN events :
         events[e].type \in {"download", "applied"} => events[e].pct \in 0..100
    /\ downPct \in 0..100
    /\ appliedPct \in 0..100

\* C4: a sync pushes at most one terminal event; none while the promise is
\* pending, {sync: true} exactly when it is fulfilled, {sync: false, msg}
\* with the error exactly when it is rejected; and while the promise is
\* pending the applier never waits in vain: the chunk it waits for is
\* settled, being downloaded or about to be requested.
C4_TerminalEvent ==
  /\ Len(Terminals) <= 1
  /\ (result.state = "pending") <=> (Terminals = <<>>)
  /\ (result.state = "fulfilled") <=> (Terminals = << SyncEv(TRUE, "") >>)
  /\ (result.state = "rejected") <=> (Terminals = << SyncEv(FALSE, result.err) >> /\ result.err # "")
  /\ (pc \in {"done", "failed"}) <=> (result.state # "pending")
  /\ (result.state = "pending" /\ pc = "awaitChunk") =>
       \/ toApply[i] # "pending"
       \/ \E k \in 1..i : dl[k] = "inflight" \/ (dl[k] = "idle" /\ toApply[k - 1] = "resolved")

C4_Witness ==
  /\ pc = "failed"
  /\ result = [state |-> "rejected", err |-> "LedgerError"]
  /\ Len(ledger) >= 2
  /\ Terminals = << SyncEv(FALSE, "LedgerError") >>

\* C5: watcher.end() has been called once when the sync has ended, by success
\* or by failure, and never before; it is never called twice.
C5_EndOnce ==
  /\ endCalls \in {0, 1}
  /\ (endCalls = 1) <=> (pc \in {"done", "failed"})

C5_Witness ==
  /\ pc = "done" /\ endCalls = 1
  /\ Len(LeafSubmits) >= 1 /\ Len(ledger) >= 2

\* C6: a terminal event is the last event of the stream: no {download: pct}
\* and no {applied: pct} event follows it.
C6_TerminalIsLast ==
  \A e \in DOMAIN events : IsTerminal(events[e]) => e = Len(events)

\* C7: when the download of chunk k has failed, no block of chunk k or of a
\* later chunk is ever handed to the ledger, obsoleteInMainBranch and
\* saveParametersForRootBlock are not called, no peer RPC and no submitP is
\* made and the sync does not succeed; and when the ledger has rejected
\* nothing the sync ends with the download error, after every block of the
\* chunks before k was handed to the ledger.
C7_DownloadFailure ==
  \A k \in 1..NumChunks :
    dl[k] = "failed" =>
      /\ \A n \in DOMAIN Handed : Handed[n] < chunks[k][1]
      /\ ~Called("obsoleteInMainBranch")
      /\ ~Called("saveParametersForRootBlock")
      /\ peerRpcs = <<>> /\ submitted = <<>>
      /\ result.state # "fulfilled"
      /\ (result.state = "rejected" /\ result.err # "LedgerError") =>
           /\ result.err = "DownloadError"
           /\ Terminals = << SyncEv(FALSE, "DownloadError") >>
           /\ Handed = Range(localNumber + 1, chunks[k][1] - 1)

C7_Witness ==
  /\ pc = "failed" /\ result.err = "DownloadError"
  /\ NumChunks >= 3 /\ dl[3] = "failed" /\ ~nopeers
  /\ Handed = Range(localNumber + 1, chunks[3][1] - 1)
  /\ Len(Handed) >= 2

\* C8: with cautious = true the ledger never sees saveBlocksInMainBranch,
\* with cautious = false it never sees submitBlock, and with cautious
\* unspecified it sees submitBlock only if L >= 0 and saveBlocksInMainBranch
\* only if L = -1; a successful sync with R > L has used the call of its mode.
C8_ModeSelection ==
  LET isCautious == \/ askedCautious = "true"
                    \/ (askedCautious = "undefined" /\ localNumber >= 0)
  IN  /\ isCautious => ~Called("saveBlocksInMainBranch")
      /\ ~isCautious => ~Called("submitBlock")
      /\ pc = "submitting" => isCautious
      /\ pc = "saving" => ~isCautious
      /\ (result.state = "fulfilled" /\ remoteNumber > localNumber) =>
           IF isCautious THEN Called("submitBlock") ELSE Called("saveBlocksInMainBranch")

C8_Witness ==
  /\ askedCautious = "undefined" /\ localNumber >= 0
  /\ result.state = "fulfilled"
  /\ Called("submitBlock") /\ Len(Handed) >= 2

\* C9: the plan is empty when R <= L; otherwise its ranges start at L+1, end
\* at R, each has first <= last and width at most C (exactly C for all but
\* the last) and starts one past the end of the previous one.
Tiles(cs, L, R, C) ==
  IF R <= L
  THEN cs = <<>>
  ELSE /\ Len(cs) >= 1
       /\ cs[1][1] = L + 1
       /\ cs[Len(cs)][2] = R
       /\ \A k \in DOMAIN cs :
            /\ cs[k][1] <= cs[k][2]
            /\ cs[k][2] - cs[k][1] + 1 <= C
            /\ k < Len(cs) => cs[k][2] - cs[k][1] + 1 = C
            /\ k > 1 => cs[k][1] = cs[k - 1][2] + 1

C9_PlannerTiling ==
  /\ logInterval # "unset" => Tiles(chunks, localNumber, remoteNumber, chunkLen)
  /\ Chunks(-1, 1200, 500) = << <<0, 499>>, <<500, 999>>, <<1000, 1200>> >>

C9_Witness ==
  /\ NumChunks >= 2
  /\ chunks[NumChunks][2] - chunks[NumChunks][1] + 1 < chunkLen
  /\ Tiles(chunks, localNumber, remoteNumber, chunkLen)

\* C10: when the remote's root equals the local root, no leaves list and no
\* leaf is requested and no leaf is submitted; otherwise only leaves of
\* remote \ local are requested, each once, every one of them by the end of
\* a successful sync, and each leaf is submitted before the next is requested.
C10_MerkleReconciliation ==
  LET requested == { LeafRequests[n].leaf : n \in DOMAIN LeafRequests }
      remote    == { jsonLeaves[n] : n \in DOMAIN jsonLeaves }
  IN  /\ rm = <<>> => (LeafRequests = <<>> /\ LeafSubmits = <<>>)
      /\ (rm # <<>> /\ rm[1] = localMerkle.root) =>
           /\ \A r \in DOMAIN peerRpcs : peerRpcs[r].rpc \notin {"leaves", "leaf"}
           /\ LeafSubmits = <<>>
      /\ requested \subseteq (remote \ localMerkle.leaves)
      /\ Cardinality(requested) = Len(LeafRequests)
      /\ Len(LeafRequests) - Len(LeafSubmits) \in {0, 1}
      /\ \A n \in DOMAIN LeafSubmits : LeafSubmits[n].entry = LeafRequests[n].leaf
      /\ pc = "leaf" => Len(LeafRequests) = Len(LeafSubmits) + 1
      /\ (pc = "done" /\ rm # <<>> /\ rm[1] # localMerkle.root) =>
           /\ requested = remote \ localMerkle.leaves
           /\ Len(LeafSubmits) = Len(LeafRequests)

C10_Witness ==
  /\ pc = "done"
  /\ rm # <<>> /\ rm[1] # localMerkle.root
  /\ Len(LeafRequests) >= 2 /\ Len(LeafSubmits) = Len(LeafRequests)

\* C11: a successful fast-mode sync with k >= 1 chunks has made exactly k
\* saveBlocksInMainBranch calls, one per chunk in plan order, then one
\* obsoleteInMainBranch call, then one saveParametersForRootBlock call with
\* block 0; the peer phase starts only after that call was accepted; and
\* obsoleteInMainBranch is never called in cautious mode or without chunks.
SaveParamsCall == [op |-> "saveParametersForRootBlock", blocks |-> <<0>>, answer |-> "accepted"]

C11_FastCallOrder ==
  /\ (result.state = "fulfilled" /\ ~cautious /\ NumChunks >= 1) =>
       /\ Len(ledger) = NumChunks + 2
       /\ \A k \in 1..NumChunks :
            /\ ledger[k].op = "saveBlocksInMainBranch"
            /\ ledger[k].blocks = Range(chunks[k][1], chunks[k][2])
       /\ ledger[NumChunks + 1].op = "obsoleteInMainBranch"
       /\ ledger[NumChunks + 2] = SaveParamsCall
  /\ (peerRpcs # <<>> \/ submitted # <<>>) =>
       (ledger # <<>> /\ ledger[Len(ledger)] = SaveParamsCall)
  /\ (cautious \/ NumChunks = 0) => ~Called("obsoleteInMainBranch")

C11_Witness ==
  /\ result.state = "fulfilled" /\ ~cautious
  /\ NumChunks >= 2 /\ Len(ledger) = NumChunks + 2
  /\ peerRpcs # <<>>

\* C12: the block passed to obsoleteInMainBranch is the block numbered R,
\* whatever the order of the remote's answer for the last chunk.
C12_ObsoleteArgument ==
  \A c \in DOMAIN ledger :
    ledger[c].op = "obsoleteInMainBranch" => ledger[c].blocks = << remoteNumber >>

\* C13: when current() has reported a version below 2, the sync has failed
\* with the error naming the UCP version, its terminal event is the only
\* event, and no blocks request, no ledger call, no peer RPC and no submitP
\* was made and the status timer was never started.
C13_RemoteTooOld ==
  (remoteVersion # 0 /\ remoteVersion < 2) =>
    /\ pc = "failed"
    /\ result = [state |-> "rejected", err |-> "UCP version is 1 (Must be >= 2)"]
    /\ events = << SyncEv(FALSE, "UCP version is 1 (Must be >= 2)") >>
    /\ blockRequests = <<>> /\ ledger = <<>>
    /\ peerRpcs = <<>> /\ submitted = <<>>
    /\ logInterval = "unset"

C13_Witness ==
  /\ remoteVersion = 1 /\ pc = "failed"
  /\ events = << SyncEv(FALSE, "UCP version is 1 (Must be >= 2)") >>

\* C14: the sync never fails with ALREADY_RECORDED or UNKNOWN_REFERENCE_BLOCK
\* answered by the peer service to a leaf submission.
C14_LeafErrorsTolerated ==
  result.err \notin {"ALREADY_RECORDED", "UNKNOWN_REFERENCE_BLOCK"}

\* C15: the sync never aborts because the remote's own peering entry comes
\* without a signature.
C15_SignatureNoAbort ==
  result.err # "Requires a peering entry + signature"

\* C16: a failed sync has no active status timer, and no timer-driven
\* writeStatus has run after its watcher.end().
C16_TimerCleared ==
  pc = "failed" => (logInterval # "active" /\ ~statusAfterEnd)

C16_Witness ==
  /\ pc = "failed" /\ logInterval = "cleared"
  /\ remoteNumber > 1 /\ speedPositive
  /\ peerRpcs # <<>>

\* C17: at most one chunk download is in flight; a chunk's request is issued
\* only when the previous chunk's download has succeeded; and the requests
\* issued are those of the first chunks of the plan, in plan order.
C17_SerializedDownloads ==
  /\ Cardinality({ k \in 1..NumChunks : dl[k] = "inflight" }) <= 1
  /\ \A k \in 2..NumChunks : dl[k] # "idle" => dl[k - 1] = "done"
  /\ Len(blockRequests) = Cardinality({ k \in 1..NumChunks : dl[k] # "idle" })
  /\ \A n \in DOMAIN blockRequests :
       blockRequests[n] = << chunks[n][2] - chunks[n][1] + 1, chunks[n][1] >>

C17_Witness ==
  /\ NumChunks >= 3 /\ dl[3] = "inflight"
  /\ pc = "submitting" /\ i = 1

\* C18: once the sync has entered its failure path, no blocks request is
\* issued any more; and no chunk after one whose download failed is ever
\* requested.
C18_NoDownloadAfterError ==
  /\ [](\A k \in 1..NumChunks :
         dl[k] = "failed" => \A m \in (k + 1)..NumChunks : dl[m] = "idle")
  /\ [][pc = "failed" => blockRequests' = blockRequests]_vars

C18_Witness ==
  /\ pc = "failed"
  /\ \E k \in 1..(NumChunks - 1) :
       dl[k] = "done" /\ toApply[k] = "pending" /\ dl[k + 1] = "idle"

\* C19: when submitBlock has rejected block n, that call is the last call
\* made to the ledger, every call before it is an accepted submitBlock, the
\* blocks handed are L+1 .. n, no peer RPC and no submitP is made, and the
\* sync has failed with the ledger's error in its terminal event.
C19_CautiousRejectionFatal ==
  \A c \in DOMAIN ledger :
    (ledger[c].op = "submitBlock" /\ ledger[c].answer = "rejected") =>
      /\ c = Len(ledger)
      /\ \A b \in 1..(c - 1) :
           ledger[b].op = "submitBlock" /\ ledger[b].answer = "accepted"
      /\ Handed = Range(localNumber + 1, ledger[c].blocks[1])
      /\ peerRpcs = <<>> /\ submitted = <<>>
      /\ pc = "failed"
      /\ result = [state |-> "rejected", err |-> "LedgerError"]
      /\ Terminals = << SyncEv(FALSE, "LedgerError") >>

C19_Witness ==
  /\ pc = "failed" /\ Len(ledger) >= 2
  /\ ledger[Len(ledger)].op = "submitBlock"
  /\ ledger[Len(ledger)].answer = "rejected"
  /\ ledger[Len(ledger)].blocks[1] < remoteNumber

\* C20: in cautious mode, while the last block submitted is not accepted
\* (unanswered or rejected), the applied counter and the {applied: pct}
\* events account for the accepted blocks only: at most one each per
\* accepted block.
IsApplied(e) == e.type = "applied"

C20_ProgressAfterAcceptance ==
  (/\ ledger # <<>>
   /\ ledger[Len(ledger)].op = "submitBlock"
   /\ ledger[Len(ledger)].answer # "accepted") =>
     /\ blocksApplied <= Len(ledger) - 1
     /\ Len(SelectSeq(events, IsApplied)) <= Len(ledger) - 1

\* C21: the applied counter never exceeds the number of blocks handed to the
\* ledger and equals it when the sync has succeeded; and once blocks are
\* counted, the remaining count R - (L + 1 + blocksApplied) of the timer is
\* never below -1.
C21_CounterAccounting ==
  /\ blocksApplied <= Len(Handed)
  /\ result.state = "fulfilled" => blocksApplied = Len(Handed)
  /\ blocksApplied > 0 => remoteNumber - (localNumber + 1 + blocksApplied) >= -1

\* C22: every leaf is submitted with eraseIfAlreadyRecorded = true exactly
\* when `to` is absent or a value the target computation takes as
\* unspecified (0).
C22_EraseFlag ==
  \A n \in DOMAIN LeafSubmits :
    (LeafSubmits[n].erase = "true") <=> (to = Undefined \/ to[1] = 0)

\* C23: the chunks downloaded ahead of the chunk the applier is at, their
\* blocks held in memory, are never more than two, however many are planned.
DownloadedAhead == { k \in 1..NumChunks : k > i /\ dl[k] = "done" /\ chunk2[k] # <<>> }

C23_BoundedMemory ==
  (pc \in {"awaitChunk", "submitting", "saving"}) => Cardinality(DownloadedAhead) <= 2

\* C24: after a successful sync the status timer is not active, and no
\* timer-driven writeStatus has run after watcher.end().
C24_TimerStopsOnSuccess ==
  pc = "done" => (logInterval # "active" /\ ~statusAfterEnd)

====
